---------------------------- MODULE Spec2Model ----------------------------
(***************************************************************************)
(* Error recovery for LR parsers (lrpar): the baseline Corchuelo et al.    *)
(* recoverer (src/src/lib/corchuelo.rs) and the cost-directed CPCT+        *)
(* recoverer (src/src/lib/cpctplus.rs).                                    *)
(*                                                                         *)
(* The parser host hands the recoverer a grammar with its LR table, a      *)
(* lexeme stream, the parse stack and tree stack at the error and the      *)
(* index of the offending lexeme.  The two grammars are those of the       *)
(* repository's tests; their tables are the LALR(1) tables.  The lexeme    *)
(* stream is any stream of at most MaxLen real lexemes (MaxLenBaseline for *)
(* the baseline) that has a syntax error; the stacks are the ones the      *)
(* parser has built when it meets it.                                      *)
(*                                                                         *)
(* Options are sequences of length 0 (None) or 1 (Some).  Vectors and      *)
(* cactus stacks are sequences, bottom first, so the top is the last       *)
(* element.  la_idx counts from 0 as in the source.                        *)
(***************************************************************************)
EXTENDS Integers, Sequences, FiniteSets, TLC

PARSE_AT_LEAST == 3
PORTION_THRESHOLD == 10
INSERT_THRESHOLD == 4
DELETE_THRESHOLD == 3

\* Longest lexeme stream handed to the parser, for CPCT+ and for the baseline.
MaxLen == 3
MaxLenBaseline == 4

--------------------------------------------------------------------------
(* Grammars and LR tables of the tests.                                    *)

\* E : 'N' | E '+' 'N' | '(' E ')'
G1Terms == <<"(", ")", "+", "N">>
G1Prods ==
    << [lhs |-> "E", len |-> 1],
       [lhs |-> "E", len |-> 3],
       [lhs |-> "E", len |-> 3] >>
G1ActionEntries ==
    { <<0, "(", "Shift", 1>>, <<0, "N", "Shift", 2>>, <<1, "(", "Shift", 1>>,
      <<1, "N", "Shift", 2>>, <<2, "$", "Reduce", 1>>, <<2, ")", "Reduce", 1>>,
      <<2, "+", "Reduce", 1>>, <<3, "$", "Accept", 0>>, <<3, "+", "Shift", 5>>,
      <<4, ")", "Shift", 6>>, <<4, "+", "Shift", 5>>, <<5, "N", "Shift", 7>>,
      <<6, "$", "Reduce", 3>>, <<6, ")", "Reduce", 3>>, <<6, "+", "Reduce", 3>>,
      <<7, "$", "Reduce", 2>>, <<7, ")", "Reduce", 2>>, <<7, "+", "Reduce", 2>> }
G1GotoEntries ==
    { <<0, "E", 3>>, <<1, "E", 4>> }

\* S: T U;  T: T1 | 'b' | T2;  T1: 'a';  T2: 'c' | 'a' 'b' 'c';  U: 'd'
G2Terms == <<"a", "b", "c", "d">>
G2Prods ==
    << [lhs |-> "S", len |-> 2],
       [lhs |-> "T", len |-> 1],
       [lhs |-> "T", len |-> 1],
       [lhs |-> "T", len |-> 1],
       [lhs |-> "T1", len |-> 1],
       [lhs |-> "T2", len |-> 1],
       [lhs |-> "T2", len |-> 3],
       [lhs |-> "U", len |-> 1] >>
G2ActionEntries ==
    { <<0, "a", "Shift", 1>>, <<0, "b", "Shift", 2>>, <<0, "c", "Shift", 3>>,
      <<1, "b", "Shift", 8>>, <<1, "d", "Reduce", 5>>, <<2, "d", "Reduce", 3>>,
      <<3, "d", "Reduce", 6>>, <<4, "$", "Accept", 0>>, <<5, "d", "Shift", 9>>,
      <<6, "d", "Reduce", 2>>, <<7, "d", "Reduce", 4>>, <<8, "c", "Shift", 11>>,
      <<9, "$", "Reduce", 8>>, <<10, "$", "Reduce", 1>>, <<11, "d", "Reduce", 7>> }
G2GotoEntries ==
    { <<0, "S", 4>>, <<0, "T", 5>>, <<0, "T1", 6>>, <<0, "T2", 7>>,
      <<5, "U", 10>> }

EOF_TIDX == "$"
NoTerm == "-"

Range(s) == {s[i] : i \in DOMAIN s}

\* stable.action as a total function; a == "None" where the table has no entry.
MkActionTable(entries, terms) ==
    [st \in {e[1] : e \in entries}, t \in Range(terms) \cup {EOF_TIDX} |->
        IF \E e \in entries : e[1] = st /\ e[2] = t
        THEN LET e == CHOOSE e \in entries : e[1] = st /\ e[2] = t
             IN  [a |-> e[3], n |-> e[4]]
        ELSE [a |-> "None", n |-> 0]]
G1ActionTable == MkActionTable(G1ActionEntries, G1Terms)
G2ActionTable == MkActionTable(G2ActionEntries, G2Terms)

MkGotoTable(entries) ==
    [k \in {<<e[1], e[2]>> : e \in entries} |->
        (CHOOSE e \in entries : <<e[1], e[2]>> = k)[3]]
G1GotoTable == MkGotoTable(G1GotoEntries)
G2GotoTable == MkGotoTable(G2GotoEntries)

--------------------------------------------------------------------------
VARIABLES
    kind,            \* RecoveryKind: "Corchuelo" or "CPCTPlus"
    grm,             \* parser.grm / parser.stable: "G1" or "G2"
    lexemes,         \* parser.lexemes: the terminal of each real lexeme
    term_cost,       \* parser.term_cost
    in_la_idx,       \* recover's in_la_idx
    in_pstack,       \* the caller's parse stack (recover's &mut in_pstack)
    tstack,          \* the caller's tree stack (recover's &mut tstack)
    expired,         \* Instant::now() >= finish_by
    pc,              \* where the recover call is
    todo,            \* corchuelo: the worklist
    finished,        \* corchuelo: the finishers kept
    finished_score,  \* corchuelo: Option<usize>
    finisher_scores, \* history: the score of every finisher the search found
    open,            \* dijkstra: the frontier, in insertion order
    closed,          \* dijkstra: the expanded nodes
    scs_nodes,       \* dijkstra: the success nodes collected
    ret              \* what recover returned

vars == <<kind, grm, lexemes, term_cost, in_la_idx, in_pstack, tstack, expired,
          pc, todo, finished, finished_score, finisher_scores,
          open, closed, scs_nodes, ret>>

--------------------------------------------------------------------------
(* The parser host's interface.                                            *)

Terms == IF grm = "G1" THEN G1Terms ELSE G2Terms
Prods == IF grm = "G1" THEN G1Prods ELSE G2Prods

Action(st, t) ==
    IF grm = "G1" THEN G1ActionTable[st, t] ELSE G2ActionTable[st, t]

Goto(st, nt) ==
    IF grm = "G1" THEN G1GotoTable[<<st, nt>>] ELSE G2GotoTable[<<st, nt>>]

\* stable.state_actions: the terminals with an action in st, in index order
\* (the end-of-input terminal has the last index).
StateActions(st) ==
    SelectSeq(Terms \o <<EOF_TIDX>>, LAMBDA t : Action(st, t).a # "None")

Top(s) == s[Len(s)]
Pop(s, n) == SubSeq(s, 1, Len(s) - n)

Lexeme(tok_id, start, len) == [tok_id |-> tok_id, start |-> start, len |-> len]

\* Every real lexeme is one character long, so lexeme i starts at offset i;
\* at la_idx == |lexemes| the lexeme is the end-of-input sentinel.
next_lexeme(la_idx) ==
    IF la_idx < Len(lexemes)
    THEN Lexeme(lexemes[la_idx + 1], la_idx, 1)
    ELSE Lexeme(EOF_TIDX, Len(lexemes), 0)

next_tidx(la_idx) == next_lexeme(la_idx).tok_id

TermNode(lexeme) == [nonterm |-> NoTerm, lexeme |-> <<lexeme>>, nodes |-> <<>>]
NontermNode(nt, nodes) == [nonterm |-> nt, lexeme |-> <<>>, nodes |-> nodes]

\* The LR step primitive (parser.lr and parser.lr_cactus): run the automaton
\* from pstack over the input at la_idx, reading lexeme_prefix in place of the
\* lexeme at la_idx when given, until la_idx reaches end_la_idx, or the action
\* is Accept, or there is none.  ts is Option<tree stack>.
RECURSIVE lr(_, _, _, _, _)
lr(lexeme_prefix, la_idx, end_la_idx, pstack, ts) ==
    IF end_la_idx = <<la_idx>>
    THEN [la_idx |-> la_idx, pstack |-> pstack, ts |-> ts]
    ELSE LET la_lexeme == IF lexeme_prefix # <<>> THEN lexeme_prefix[1]
                          ELSE next_lexeme(la_idx)
             act == Action(Top(pstack), la_lexeme.tok_id)
         IN  CASE act.a = "Reduce" ->
                    LET prod == Prods[act.n]
                        base == Pop(pstack, prod.len)
                        n_ts == IF ts = <<>> THEN ts
                                ELSE <<Append(Pop(ts[1], prod.len),
                                         NontermNode(prod.lhs,
                                            SubSeq(ts[1], Len(ts[1]) - prod.len + 1,
                                                   Len(ts[1]))))>>
                    IN  lr(lexeme_prefix, la_idx, end_la_idx,
                           Append(base, Goto(Top(base), prod.lhs)), n_ts)
             [] act.a = "Shift" ->
                    lr(lexeme_prefix, la_idx + 1, end_la_idx, Append(pstack, act.n),
                       IF ts = <<>> THEN ts ELSE <<Append(ts[1], TermNode(la_lexeme))>>)
             [] OTHER -> [la_idx |-> la_idx, pstack |-> pstack, ts |-> ts]

\* parser.lr_cactus: the same step on a cactus stack, building no tree.
lr_cactus(lexeme_prefix, la_idx, end_la_idx, pstack) ==
    lr(lexeme_prefix, la_idx, <<end_la_idx>>, pstack, <<>>)

IsAccept(st, t) == Action(st, t).a = "Accept"

--------------------------------------------------------------------------
(* ParseRepair, the repairs handed back to the host.                       *)

PInsert(t) == [op |-> "Insert", term_idx |-> t]
PDelete == [op |-> "Delete", term_idx |-> NoTerm]
PShift == [op |-> "Shift", term_idx |-> NoTerm]

\* The number of repairs of s whose kind is in ops.
Count(s, ops) == Len(SelectSeq(s, LAMBDA r : r.op \in ops))

--------------------------------------------------------------------------
(* The baseline recoverer, corchuelo.rs.                                   *)

\* score: the number of Inserts and Deletes.
score(repairs) == Count(repairs, {"Insert", "Delete"})

Item(la_idx, pstack, ts, repairs) ==
    [la_idx |-> la_idx, pstack |-> pstack, tstack |-> ts, repairs |-> repairs]

\* A variant of the pruning test that prunes at equal cost too.
PrunedAtEqual(fscore, repairs) == fscore # <<>> /\ fscore[1] <= score(repairs)

\* The pruning test at the head of the loop.
Pruned(fscore, repairs) == fscore # <<>> /\ fscore[1] < score(repairs)

\* A variant of the Insertion rule that has no cap on the Inserts.
ER1NoCap(cur) ==
    IF cur.repairs # <<>> /\ Top(cur.repairs) = PDelete THEN <<>>
    ELSE LET syms == StateActions(Top(cur.pstack))
             one(term_idx) ==
                IF term_idx = EOF_TIDX THEN <<>>
                ELSE LET new_lexeme == Lexeme(term_idx, next_lexeme(cur.la_idx).start, 0)
                         r == lr(<<new_lexeme>>, cur.la_idx, <<cur.la_idx + 1>>,
                                 cur.pstack, <<cur.tstack>>)
                     IN  IF r.la_idx > cur.la_idx
                         THEN <<Item(cur.la_idx, r.pstack, r.ts[1],
                                     Append(cur.repairs, PInsert(term_idx)))>>
                         ELSE <<>>
             F[i \in 0..Len(syms)] ==
                IF i = 0 THEN <<>> ELSE F[i - 1] \o one(syms[i])
         IN  F[Len(syms)]

\* Insertion rule (ER1): the items it pushes, in order.
ER1(cur) ==
    IF cur.repairs # <<>> /\ Top(cur.repairs) = PDelete THEN <<>>
    ELSE IF ~(Count(cur.repairs, {"Insert"}) <= INSERT_THRESHOLD)
    THEN <<>>
    ELSE LET syms == StateActions(Top(cur.pstack))
             one(term_idx) ==
                IF term_idx = EOF_TIDX THEN <<>>
                ELSE LET new_lexeme == Lexeme(term_idx, next_lexeme(cur.la_idx).start, 0)
                         r == lr(<<new_lexeme>>, cur.la_idx, <<cur.la_idx + 1>>,
                                 cur.pstack, <<cur.tstack>>)
                     IN  IF r.la_idx > cur.la_idx
                         THEN <<Item(cur.la_idx, r.pstack, r.ts[1],
                                     Append(cur.repairs, PInsert(term_idx)))>>
                         ELSE <<>>
             F[i \in 0..Len(syms)] ==
                IF i = 0 THEN <<>> ELSE F[i - 1] \o one(syms[i])
         IN  F[Len(syms)]

\* A variant of the Delete rule that leaves la_idx where it is.
ER2Unmoved(cur) ==
    IF cur.la_idx < Len(lexemes)
       /\ Count(cur.repairs, {"Delete"}) <= DELETE_THRESHOLD
    THEN <<Item(cur.la_idx, cur.pstack, cur.tstack, Append(cur.repairs, PDelete))>>
    ELSE <<>>

\* Delete rule (ER2).
ER2(cur) ==
    IF cur.la_idx < Len(lexemes)
       /\ Count(cur.repairs, {"Delete"}) <= DELETE_THRESHOLD
    THEN <<Item(cur.la_idx + 1, cur.pstack, cur.tstack, Append(cur.repairs, PDelete))>>
    ELSE <<>>

Shifts(n) == [i \in 1..n |-> PShift]

\* A variant of the forward move that does not record its Shifts.
ER3ItemUnrecorded(cur, r) == Item(r.la_idx, r.pstack, r.ts[1], cur.repairs)

\* Forward move rule (ER3): the item made from r, where the parser stopped.
ER3Item(cur, r) ==
    Item(r.la_idx, r.pstack, r.ts[1], cur.repairs \o Shifts(r.la_idx - cur.la_idx))

\* A variant of the forward move's decision that puts a non-finisher with no
\* next action back on todo whether or not it advanced.
ER3WhatUnadvanced(cur, new_la_idx, act) ==
    IF ~(new_la_idx < in_la_idx + PORTION_THRESHOLD) THEN "none"
    ELSE IF new_la_idx = cur.la_idx + PARSE_AT_LEAST THEN "finisher"
    ELSE IF act = "Accept" THEN "finisher"
    ELSE IF act # "None" THEN "none"
    ELSE "todo"

\* What the forward move found: a "finisher", an item for "todo", or "none".
ER3What(cur, new_la_idx, act) ==
    IF ~(new_la_idx < in_la_idx + PORTION_THRESHOLD) THEN "none"
    ELSE IF new_la_idx = cur.la_idx + PARSE_AT_LEAST THEN "finisher"
    ELSE IF act = "Accept" THEN "finisher"
    ELSE IF act # "None" THEN "none"
    ELSE IF new_la_idx > cur.la_idx THEN "todo"
    ELSE "none"

ER3From(cur, item) ==
    [what |-> ER3What(cur, item.la_idx, Action(Top(item.pstack), next_tidx(item.la_idx)).a),
     item |-> item]

ER3(cur) ==
    ER3From(cur, ER3Item(cur, lr(<<>>, cur.la_idx, <<cur.la_idx + PARSE_AT_LEAST>>,
                                 cur.pstack, <<cur.tstack>>)))

\* A variant of the end of an iteration that keeps the finishers found so far
\* when a cheaper one is found.
FinishNoClear(pushed, fin, fscore, fwd, s) ==
    CASE fwd.what = "finisher" ->
            [todo |-> pushed, finished |-> Append(fin, fwd.item),
             finished_score |-> IF fscore = <<>> \/ s < fscore[1] THEN <<s>> ELSE fscore,
             found |-> <<s>>]
    [] fwd.what = "todo" ->
            [todo |-> Append(pushed, fwd.item), finished |-> fin,
             finished_score |-> fscore, found |-> <<>>]
    [] OTHER ->
            [todo |-> pushed, finished |-> fin, finished_score |-> fscore,
             found |-> <<>>]

\* A variant of the end of an iteration that puts a finisher back on todo.
FinishRequeue(pushed, fin, fscore, fwd, s) ==
    CASE fwd.what = "finisher" ->
            IF fscore = <<>> \/ s < fscore[1]
            THEN [todo |-> Append(pushed, fwd.item), finished |-> <<fwd.item>>,
                  finished_score |-> <<s>>, found |-> <<s>>]
            ELSE [todo |-> Append(pushed, fwd.item), finished |-> Append(fin, fwd.item),
                  finished_score |-> fscore, found |-> <<s>>]
    [] fwd.what = "todo" ->
            [todo |-> Append(pushed, fwd.item), finished |-> fin,
             finished_score |-> fscore, found |-> <<>>]
    [] OTHER ->
            [todo |-> pushed, finished |-> fin, finished_score |-> fscore,
             found |-> <<>>]

\* The end of an iteration: todo is extended and finished is updated with
\* what the forward move found; s is the score of the item it made.
Finish(pushed, fin, fscore, fwd, s) ==
    CASE fwd.what = "finisher" ->
            IF fscore = <<>> \/ s < fscore[1]
            THEN [todo |-> pushed, finished |-> <<fwd.item>>,
                  finished_score |-> <<s>>, found |-> <<s>>]
            ELSE [todo |-> pushed, finished |-> Append(fin, fwd.item),
                  finished_score |-> fscore, found |-> <<s>>]
    [] fwd.what = "todo" ->
            [todo |-> Append(pushed, fwd.item), finished |-> fin,
             finished_score |-> fscore, found |-> <<>>]
    [] OTHER ->
            [todo |-> pushed, finished |-> fin, finished_score |-> fscore,
             found |-> <<>>]

Expanded(rest, fin, fscore, cur, fwd) ==
    Finish(rest \o ER1(cur) \o ER2(cur), fin, fscore, fwd, score(fwd.item.repairs))

\* pp_repairs of the tests of corchuelo.rs: how a sequence is printed, each
\* repair as the words of its text.  A Shift is printed as "Delete".
pp_repairs(repairs) ==
    [i \in DOMAIN repairs |->
        CASE repairs[i].op = "Insert" -> <<"Insert", repairs[i].term_idx>>
        []   repairs[i].op = "Delete" -> <<"Delete">>
        []   repairs[i].op = "Shift" -> <<"Delete">>]

\* A variant of the iteration that leaves a pruned item on the work list, at
\* its back.
CorchueloIterKeepPruned(td, fin, fscore) ==
    IF Pruned(fscore, Head(td).repairs)
    THEN [todo |-> Append(Tail(td), Head(td)), finished |-> fin,
          finished_score |-> fscore, found |-> <<>>]
    ELSE Expanded(Tail(td), fin, fscore, Head(td), ER3(Head(td)))

\* One iteration of the while loop of recover.
CorchueloIter(td, fin, fscore) ==
    IF Pruned(fscore, Head(td).repairs)
    THEN [todo |-> Tail(td), finished |-> fin, finished_score |-> fscore,
          found |-> <<>>]
    ELSE Expanded(Tail(td), fin, fscore, Head(td), ER3(Head(td)))

CorchueloStep ==
    /\ kind = "Corchuelo"
    /\ pc = "todo"
    /\ todo # <<>>
    /\ LET r == CorchueloIter(todo, finished, finished_score)
       IN  /\ todo' = r.todo
           /\ finished' = r.finished
           /\ finished_score' = r.finished_score
           /\ finisher_scores' = finisher_scores \cup Range(r.found)
    /\ UNCHANGED <<kind, grm, lexemes, term_cost, in_la_idx, in_pstack, tstack,
                   expired, pc, open, closed, scs_nodes, ret>>

\* while todo.len() > 0 ends; recover returns finished.
CorchueloReturn ==
    /\ kind = "Corchuelo"
    /\ pc = "todo"
    /\ todo = <<>>
    /\ pc' = "done"
    /\ ret' = [la_idx |-> in_la_idx, repairs |-> [i \in DOMAIN finished |-> finished[i].repairs]]
    /\ UNCHANGED <<kind, grm, lexemes, term_cost, in_la_idx, in_pstack, tstack,
                   expired, todo, finished, finished_score, finisher_scores,
                   open, closed, scs_nodes>>

--------------------------------------------------------------------------
(* The CPCT+ recoverer, cpctplus.rs.                                       *)

\* enum Repair
InsertTerm(t) == [op |-> "InsertTerm", term_idx |-> t]
Delete == [op |-> "Delete", term_idx |-> NoTerm]
Shift == [op |-> "Shift", term_idx |-> NoTerm]
NoRepair == [op |-> "None", term_idx |-> NoTerm]

\* enum RepairMerge; v is the Cactus<Cactus<RepairMerge>> of a Merge.
RMRepair(r) == [k |-> "Repair", r |-> r, v |-> <<>>]
RMMerge(r, v) == [k |-> "Merge", r |-> r, v |-> v]
Terminator == [k |-> "Terminator", r |-> NoRepair, v |-> <<>>]

PathFNode(pstack, la_idx, repairs, cf) ==
    [pstack |-> pstack, la_idx |-> la_idx, repairs |-> repairs, cf |-> cf]

\* PathFNode::last_repair, an Option<Repair>.
last_repair(n) ==
    LET e == Top(n.repairs)
    IN  IF e.k = "Terminator" THEN <<>> ELSE <<e.r>>

\* The closure num_shifts of PathFNode::eq: the Shifts at the top of c.
RECURSIVE num_shifts(_)
num_shifts(c) ==
    IF c = <<>> THEN 0
    ELSE IF Top(c).k \in {"Repair", "Merge"} /\ Top(c).r = Shift
    THEN 1 + num_shifts(Pop(c, 1))
    ELSE 0

\* A variant of PathFNode::eq that does not compare the Shifts at the top.
NodeEqNoShifts(self, other) ==
    IF self.la_idx # other.la_idx \/ self.pstack # other.pstack THEN FALSE
    ELSE (last_repair(self) = <<Delete>>) = (last_repair(other) = <<Delete>>)

\* A variant of PathFNode::eq that compares what PathFNode::hash hashes.
NodeEqAsHash(self, other) ==
    self.la_idx = other.la_idx /\ self.pstack = other.pstack

\* PathFNode::eq
NodeEq(self, other) ==
    IF self.la_idx # other.la_idx \/ self.pstack # other.pstack THEN FALSE
    ELSE IF last_repair(self) = <<Delete>> /\ last_repair(other) = <<Delete>>
    THEN num_shifts(self.repairs) = num_shifts(other.repairs)
    ELSE IF last_repair(self) = <<Delete>> \/ last_repair(other) = <<Delete>>
    THEN FALSE
    ELSE num_shifts(self.repairs) = num_shifts(other.repairs)

\* A variant of ends_with_parse_at_least_shifts that is content with one Shift.
ends_with_a_shift(repairs) ==
    repairs[Len(repairs)].k \in {"Repair", "Merge"} /\ repairs[Len(repairs)].r = Shift

\* ends_with_parse_at_least_shifts
ends_with_parse_at_least_shifts(repairs) ==
    LET taken == {i \in DOMAIN repairs : i > Len(repairs) - PARSE_AT_LEAST}
    IN  /\ \A i \in taken : repairs[i].k \in {"Repair", "Merge"} /\ repairs[i].r = Shift
        /\ Cardinality(taken) = PARSE_AT_LEAST

\* A variant of the success closure that does not look at the LR action.
SuccessByShifts(n) == ends_with_parse_at_least_shifts(n.repairs)

\* The success closure of recover.
Success(n) ==
    \/ ends_with_parse_at_least_shifts(n.repairs)
    \/ IsAccept(Top(n.pstack), next_tidx(n.la_idx))

\* A variant of insert that charges 1 for every terminal.
insert_unit(n) ==
    LET syms == StateActions(Top(n.pstack))
        one(t_idx) ==
            IF t_idx = EOF_TIDX THEN <<>>
            ELSE LET new_lexeme == Lexeme(t_idx, next_lexeme(n.la_idx).start, 0)
                     r == lr_cactus(<<new_lexeme>>, n.la_idx, n.la_idx + 1, n.pstack)
                 IN  IF r.la_idx > n.la_idx
                     THEN <<PathFNode(r.pstack, n.la_idx,
                                      Append(n.repairs, RMRepair(InsertTerm(t_idx))),
                                      n.cf + 1)>>
                     ELSE <<>>
        F[i \in 0..Len(syms)] == IF i = 0 THEN <<>> ELSE F[i - 1] \o one(syms[i])
    IN  F[Len(syms)]

\* A variant of insert that keeps a terminal whether or not the step reads it.
insert_unread(n) ==
    LET syms == StateActions(Top(n.pstack))
        one(t_idx) ==
            IF t_idx = EOF_TIDX THEN <<>>
            ELSE LET new_lexeme == Lexeme(t_idx, next_lexeme(n.la_idx).start, 0)
                     r == lr_cactus(<<new_lexeme>>, n.la_idx, n.la_idx + 1, n.pstack)
                 IN  <<PathFNode(r.pstack, n.la_idx,
                                 Append(n.repairs, RMRepair(InsertTerm(t_idx))),
                                 n.cf + term_cost[t_idx])>>
        F[i \in 0..Len(syms)] == IF i = 0 THEN <<>> ELSE F[i - 1] \o one(syms[i])
    IN  F[Len(syms)]

\* CPCTPlus::insert.  cf is a u32 and the addition is checked; the costs and
\* the paths of this model stay far below 2^32.
insert(n) ==
    LET syms == StateActions(Top(n.pstack))
        one(t_idx) ==
            IF t_idx = EOF_TIDX THEN <<>>
            ELSE LET new_lexeme == Lexeme(t_idx, next_lexeme(n.la_idx).start, 0)
                     r == lr_cactus(<<new_lexeme>>, n.la_idx, n.la_idx + 1, n.pstack)
                 IN  IF r.la_idx > n.la_idx
                     THEN <<PathFNode(r.pstack, n.la_idx,
                                      Append(n.repairs, RMRepair(InsertTerm(t_idx))),
                                      n.cf + term_cost[t_idx])>>
                     ELSE <<>>
        F[i \in 0..Len(syms)] == IF i = 0 THEN <<>> ELSE F[i - 1] \o one(syms[i])
    IN  F[Len(syms)]

\* A variant of delete that leaves the cost of the deleted lexeme out.
delete_free(n) ==
    IF n.la_idx = Len(lexemes) THEN <<>>
    ELSE <<PathFNode(n.pstack, n.la_idx + 1, Append(n.repairs, RMRepair(Delete)), n.cf)>>

\* A variant of delete that deletes the end of the input too, at no cost.
delete_past_end(n) ==
    <<PathFNode(n.pstack, n.la_idx + 1, Append(n.repairs, RMRepair(Delete)),
                n.cf + (IF n.la_idx = Len(lexemes) THEN 0
                        ELSE term_cost[next_tidx(n.la_idx)]))>>

\* CPCTPlus::delete
delete(n) ==
    IF n.la_idx = Len(lexemes) THEN <<>>
    ELSE <<PathFNode(n.pstack, n.la_idx + 1, Append(n.repairs, RMRepair(Delete)),
                     n.cf + term_cost[next_tidx(n.la_idx)])>>

\* A variant of shift that never records the Shift in the history.
ShiftNodeUnrecorded(n, r) ==
    IF n.pstack # r.pstack
    THEN <<PathFNode(r.pstack, r.la_idx, n.repairs, n.cf)>>
    ELSE <<>>

\* A variant of shift that admits the successor when the lookahead advanced.
ShiftNodeOnAdvance(n, r) ==
    IF r.la_idx > n.la_idx
    THEN <<PathFNode(r.pstack, r.la_idx, Append(n.repairs, RMRepair(Shift)), n.cf)>>
    ELSE <<>>

\* CPCTPlus::shift, from the result r of the one-token step.
ShiftNode(n, r) ==
    IF n.pstack # r.pstack
    THEN <<PathFNode(r.pstack, r.la_idx,
                     IF r.la_idx > n.la_idx THEN Append(n.repairs, RMRepair(Shift))
                     ELSE n.repairs,
                     n.cf)>>
    ELSE <<>>

shift(n) == ShiftNode(n, lr_cactus(<<>>, n.la_idx, n.la_idx + 1, n.pstack))

\* A variant of the neighbour policy that inserts after a Delete too.
NeighboursAll(explore_all, n) ==
    (IF explore_all THEN insert(n) ELSE <<>>)
    \o (IF explore_all THEN delete(n) ELSE <<>>)
    \o shift(n)

\* A variant of the neighbour policy that deletes whatever explore_all is.
NeighboursDeleteAlways(explore_all, n) ==
    (IF last_repair(n) # <<Delete>> /\ explore_all THEN insert(n) ELSE <<>>)
    \o delete(n)
    \o shift(n)

\* The neighbours closure of recover, past its deadline check: the nodes it
\* pushes on nbrs.
Neighbours(explore_all, n) ==
    (IF last_repair(n) # <<Delete>> /\ explore_all THEN insert(n) ELSE <<>>)
    \o (IF explore_all THEN delete(n) ELSE <<>>)
    \o shift(n)

\* A variant of the closure that never looks at the deadline.
ExpandNoDeadline(explore_all, n, timed_out) ==
    [cont |-> TRUE, nbrs |-> Neighbours(explore_all, n)]

\* A variant of the closure that, past the deadline, pushes nothing but
\* returns true.
ExpandSkip(explore_all, n, timed_out) ==
    [cont |-> TRUE, nbrs |-> IF timed_out THEN <<>> ELSE Neighbours(explore_all, n)]

\* The neighbours closure of recover; timed_out is Instant::now() >= finish_by,
\* cont is the value the closure returns.
Expand(explore_all, n, timed_out) ==
    IF timed_out THEN [cont |-> FALSE, nbrs |-> <<>>]
    ELSE [cont |-> TRUE, nbrs |-> Neighbours(explore_all, n)]

\* A variant of the merge closure that keeps only the newest merged history.
MergeTopReplace(old, new, e) ==
    CASE e.k \in {"Repair", "Merge"} ->
            [ok |-> TRUE,
             node |-> [old EXCEPT !.repairs =
                         Append(Pop(old.repairs, 1), RMMerge(e.r, <<new.repairs>>))]]
    [] OTHER -> [ok |-> FALSE, node |-> old]

\* A variant of the merge closure that puts the Merge on top of old's history
\* instead of in the place of its newest entry.
MergeTopPushed(old, new, e) ==
    CASE e.k = "Repair" ->
            [ok |-> TRUE,
             node |-> [old EXCEPT !.repairs =
                         Append(old.repairs, RMMerge(e.r, <<new.repairs>>))]]
    [] e.k = "Merge" ->
            [ok |-> TRUE,
             node |-> [old EXCEPT !.repairs =
                         Append(old.repairs, RMMerge(e.r, Append(e.v, new.repairs)))]]
    [] OTHER -> [ok |-> FALSE, node |-> old]

\* The merge closure of recover: old after new is merged into it; ok is FALSE
\* where the closure reaches unreachable!().
MergeTop(old, new, e) ==
    CASE e.k = "Repair" ->
            [ok |-> TRUE,
             node |-> [old EXCEPT !.repairs =
                         Append(Pop(old.repairs, 1), RMMerge(e.r, <<new.repairs>>))]]
    [] e.k = "Merge" ->
            [ok |-> TRUE,
             node |-> [old EXCEPT !.repairs =
                         Append(Pop(old.repairs, 1),
                                RMMerge(e.r, Append(e.v, new.repairs)))]]
    [] OTHER -> [ok |-> FALSE, node |-> old]

\* A variant of the merge closure that keeps old as it is.
MergeNodesKeepOld(old, new) == [ok |-> TRUE, node |-> old]

MergeNodes(old, new) ==
    IF old.repairs = new.repairs THEN [ok |-> TRUE, node |-> old]
    ELSE MergeTop(old, new, Top(old.repairs))

Reverse(s) == [i \in DOMAIN s |-> s[Len(s) + 1 - i]]

RECURSIVE Flatten(_)
Flatten(ss) == IF ss = <<>> THEN <<>> ELSE Head(ss) \o Flatten(Tail(ss))

\* traverse of collect_repairs: r pushed on every sequence of the parent.
PushAll(parents, r) ==
    IF parents = <<>> THEN << <<r>> >>
    ELSE [i \in DOMAIN parents |-> Append(parents[i], r)]

\* traverse of collect_repairs: the repair sequences a history stands for;
\* vc.vals() yields the merged histories newest first.
RECURSIVE traverse(_)
traverse(rm) ==
    CASE Top(rm).k = "Repair" -> PushAll(traverse(Pop(rm, 1)), Top(rm).r)
    []   Top(rm).k = "Merge" ->
            PushAll(traverse(Pop(rm, 1)), Top(rm).r)
            \o Flatten([i \in DOMAIN Top(rm).v |-> traverse(Reverse(Top(rm).v)[i])])
    []   OTHER -> <<>>

\* repair_to_parse_repair
repair_to_parse_repair(from) ==
    [i \in DOMAIN from |->
        CASE from[i].op = "InsertTerm" -> PInsert(from[i].term_idx)
        []   from[i].op = "Delete" -> PDelete
        []   from[i].op = "Shift" -> PShift]

\* collect_repairs: for every candidate node, its repair sequences.
ToParseRepairs(t) == [j \in DOMAIN t |-> repair_to_parse_repair(t[j])]

collect_repairs(cnds) == [i \in DOMAIN cnds |-> ToParseRepairs(traverse(cnds[i].repairs))]

--------------------------------------------------------------------------
(* astar::dijkstra, the shortest-path search with merging.  One iteration  *)
(* pops the cheapest open node, the oldest among equals.                   *)

MinCf(opn) == CHOOSE c \in {opn[i].cf : i \in DOMAIN opn} :
                  \A i \in DOMAIN opn : c <= opn[i].cf

\* The index of the oldest node of s equal to n, and of the oldest of cf c.
FirstEq(s, n) ==
    CHOOSE i \in DOMAIN s : NodeEq(s[i], n) /\ \A j \in 1..(i - 1) : ~NodeEq(s[j], n)

FirstOfCf(s, c) ==
    CHOOSE i \in DOMAIN s : s[i].cf = c /\ \A j \in 1..(i - 1) : s[j].cf # c

RemoveAt(s, i) == SubSeq(s, 1, i - 1) \o SubSeq(s, i + 1, Len(s))

\* new is merged into the node at index j of the closed map or the open queue.
MergeInto(acc, where, j, m) == [acc EXCEPT ![where][j] = m.node, !.ok = m.ok]

\* A neighbour equal to the closed node at j.
PlaceClosed(acc, nbr, j) ==
    IF acc.closed[j].cf = nbr.cf
    THEN MergeInto(acc, "closed", j, MergeNodes(acc.closed[j], nbr))
    ELSE acc

\* A neighbour equal to the open node at j.
PlaceOpen(acc, nbr, j) ==
    CASE acc.open[j].cf < nbr.cf -> acc
    []   acc.open[j].cf = nbr.cf ->
            MergeInto(acc, "open", j, MergeNodes(acc.open[j], nbr))
    []   OTHER -> [acc EXCEPT !.open[j] = nbr]

\* One neighbour meets the closed map and the open queue.
Place(acc, nbr) ==
    IF \E j \in DOMAIN acc.closed : NodeEq(acc.closed[j], nbr)
    THEN PlaceClosed(acc, nbr, FirstEq(acc.closed, nbr))
    ELSE IF \E j \in DOMAIN acc.open : NodeEq(acc.open[j], nbr)
    THEN PlaceOpen(acc, nbr, FirstEq(acc.open, nbr))
    ELSE [acc EXCEPT !.open = Append(@, nbr)]

RECURSIVE Enqueue(_, _)
Enqueue(acc, nbrs) ==
    IF nbrs = <<>> \/ ~acc.ok THEN acc
    ELSE Enqueue(Place(acc, Head(nbrs)), Tail(nbrs))

\* The search is over when nothing is open, or, once a success node has been
\* collected, when the cheapest open node costs more than it.
SearchOver(d) ==
    \/ d.open = <<>>
    \/ d.pc = "harvest" /\ MinCf(d.open) # d.scs_nodes[1].cf

\* The search after the neighbours e of a popped node were placed, as acc.
Expanded2(d, e, acc) ==
    IF ~e.cont THEN [d EXCEPT !.open = acc.open, !.closed = acc.closed, !.pc = "returned"]
    ELSE [d EXCEPT !.open = acc.open, !.closed = acc.closed,
                   !.pc = IF acc.ok THEN @ ELSE "panic"]

\* The popped node n is closed and expanded; rest is the open queue without it.
ExpandNode(d, n, rest, e) ==
    Expanded2(d, e, Enqueue([open |-> rest, closed |-> Append(d.closed, n), ok |-> TRUE],
                            e.nbrs))

\* The node at index i of the open queue is popped.
PopNode(d, n, rest, timed_out) ==
    IF Success(n)
    THEN [d EXCEPT !.open = rest, !.scs_nodes = Append(@, n), !.pc = "harvest"]
    ELSE ExpandNode(d, n, rest, Expand(d.pc = "search", n, timed_out))

PopAt(d, i, timed_out) == PopNode(d, d.open[i], RemoveAt(d.open, i), timed_out)

PopCheapest(d, c, timed_out) == PopAt(d, FirstOfCf(d.open, c), timed_out)

\* One iteration of the search; d is [open, closed, scs_nodes, pc] with pc
\* "search" (no success node yet), "harvest", "returned" or "panic".
DijkstraIter(d, timed_out) ==
    IF SearchOver(d) THEN [d EXCEPT !.pc = "returned"]
    ELSE PopCheapest(d, MinCf(d.open), timed_out)

--------------------------------------------------------------------------
(* mf: replay, ranking and simplification.                                 *)

\* One Insert or Shift of apply_repairs went through the parser as r.
RECURSIVE apply_repairs(_, _, _, _)
Stepped(la_idx, r, repairs, Insert) ==
    IF r.la_idx = la_idx + 1
    THEN apply_repairs(IF Insert THEN la_idx ELSE r.la_idx, r.pstack, r.ts, Tail(repairs))
    ELSE [la_idx |-> la_idx, pstack |-> r.pstack, ts |-> r.ts, ok |-> FALSE]

\* apply_repairs: replay repairs from (la_idx, pstack), on the tree stack too
\* when ts is Some.  ok is FALSE when an Insert or a Shift does not go through.
apply_repairs(la_idx, pstack, ts, repairs) ==
    IF repairs = <<>>
    THEN [la_idx |-> la_idx, pstack |-> pstack, ts |-> ts, ok |-> TRUE]
    ELSE CASE Head(repairs).op = "Insert" ->
                Stepped(la_idx,
                        lr(<<Lexeme(Head(repairs).term_idx, next_lexeme(la_idx).start, 0)>>,
                           la_idx, <<la_idx + 1>>, pstack, ts),
                        repairs, TRUE)
         []   Head(repairs).op = "Delete" ->
                apply_repairs(la_idx + 1, pstack, ts, Tail(repairs))
         []   OTHER ->
                Stepped(la_idx, lr(<<>>, la_idx, <<la_idx + 1>>, pstack, ts),
                        repairs, FALSE)

\* How far the parser gets after a candidate: replay it, then parse the real
\* input up to the next error or the end.
ParseOn(a) == [ok |-> a.ok, la_idx |-> lr(<<>>, a.la_idx, <<>>, a.pstack, <<>>).la_idx]

Progress(la_idx, pstack, repairs) == ParseOn(apply_repairs(la_idx, pstack, <<>>, repairs))

Keyed(seq, p) == [seq |-> seq, ok |-> p.ok, key |-> p.la_idx]

\* Insert x into the ranked list: after every candidate that gets at least as far.
RECURSIVE RankInsert(_, _)
RankInsert(ranked, x) ==
    IF ranked = <<>> THEN <<x>>
    ELSE IF Head(ranked).key >= x.key THEN <<Head(ranked)>> \o RankInsert(Tail(ranked), x)
    ELSE <<x>> \o ranked

RECURSIVE RankAll(_, _)
RankAll(ranked, cnds) ==
    IF cnds = <<>> THEN ranked
    ELSE RankAll(RankInsert(ranked, Head(cnds)), Tail(cnds))

Seqs(ranked) == [i \in DOMAIN ranked |-> ranked[i].seq]

RankSeqs(la_idx, pstack, seqs) ==
    Seqs(RankAll(<<>>, SelectSeq([i \in DOMAIN seqs |->
                                    Keyed(seqs[i], Progress(la_idx, pstack, seqs[i]))],
                                 LAMBDA x : x.ok)))

\* rank_cnds: the candidates that apply, the one that lets the parser get
\* furthest first, ties in the order of discovery.
rank_cnds(la_idx, pstack, in_cnds) == RankSeqs(la_idx, pstack, Flatten(in_cnds))

RECURSIVE StripShifts(_)
StripShifts(seq) ==
    IF seq # <<>> /\ Top(seq) = PShift THEN StripShifts(Pop(seq, 1)) ELSE seq

RECURSIVE Dedup(_, _)
Dedup(out, seqs) ==
    IF seqs = <<>> THEN out
    ELSE Dedup(IF \E i \in DOMAIN out : out[i] = Head(seqs) THEN out
               ELSE Append(out, Head(seqs)), Tail(seqs))

\* simplify_repairs: strip the trailing Shifts, then drop the duplicates.
simplify_repairs(seqs) ==
    Dedup(<<>>, [i \in DOMAIN seqs |-> StripShifts(seqs[i])])

--------------------------------------------------------------------------
(* CPCTPlus::recover.                                                      *)

start_node == PathFNode(in_pstack, in_la_idx, <<Terminator>>, 0)

\* A variant of the failure return that hands the stacks back unwound.
FailedUnwound == [la_idx |-> in_la_idx, repairs |-> <<>>, pstack |-> <<>>, tstack |-> <<>>]

Failed == [la_idx |-> in_la_idx, repairs |-> <<>>, pstack |-> in_pstack, tstack |-> tstack]

Replayed(rnk_rprs, a) ==
    [la_idx |-> a.la_idx, repairs |-> rnk_rprs, pstack |-> a.pstack, tstack |-> a.ts[1]]

Replay(rnk_rprs) ==
    Replayed(rnk_rprs, apply_repairs(in_la_idx, in_pstack, <<tstack>>, rnk_rprs[1]))

\* A variant of the end of recover that does not call simplify_repairs.
RankedRaw(rnk_rprs) == IF rnk_rprs = <<>> THEN Failed ELSE Replay(rnk_rprs)

Ranked(rnk_rprs) ==
    IF rnk_rprs = <<>> THEN Failed ELSE Replay(simplify_repairs(rnk_rprs))

\* What recover does once dijkstra has returned astar_cnds: the value it
\* returns and the caller's stacks as it leaves them.
RecoverTail(astar_cnds) ==
    IF astar_cnds = <<>> THEN Failed
    ELSE Ranked(rank_cnds(in_la_idx, in_pstack, collect_repairs(astar_cnds)))

\* One iteration of the search that recover runs.
DijkstraStep ==
    /\ kind = "CPCTPlus"
    /\ pc \in {"search", "harvest"}
    /\ LET d == DijkstraIter([open |-> open, closed |-> closed,
                              scs_nodes |-> scs_nodes, pc |-> pc], expired)
       IN  /\ open' = d.open
           /\ closed' = d.closed
           /\ scs_nodes' = d.scs_nodes
           /\ pc' = d.pc
    /\ UNCHANGED <<kind, grm, lexemes, term_cost, in_la_idx, in_pstack, tstack,
                   expired, todo, finished, finished_score, finisher_scores, ret>>

\* dijkstra has returned: rank, simplify, replay the first sequence, return.
RecoverReturn ==
    /\ kind = "CPCTPlus"
    /\ pc = "returned"
    /\ LET r == RecoverTail(scs_nodes)
       IN  /\ ret' = [la_idx |-> r.la_idx, repairs |-> r.repairs]
           /\ in_pstack' = r.pstack
           /\ tstack' = r.tstack
    /\ pc' = "done"
    /\ UNCHANGED <<kind, grm, lexemes, term_cost, in_la_idx, expired, todo, finished,
                   finished_score, finisher_scores, open, closed, scs_nodes>>

\* Time passes and the deadline finish_by is reached.
Tick ==
    /\ kind = "CPCTPlus"
    /\ pc \in {"search", "harvest"}
    /\ ~expired
    /\ expired' = TRUE
    /\ UNCHANGED <<kind, grm, lexemes, term_cost, in_la_idx, in_pstack, tstack, pc,
                   todo, finished, finished_score, finisher_scores,
                   open, closed, scs_nodes, ret>>

--------------------------------------------------------------------------
(* The states recover is called in.                                        *)

RECURSIVE SeqsUpTo(_, _)
SeqsUpTo(S, n) ==
    IF n = 0 THEN {<<>>}
    ELSE LET shorter == SeqsUpTo(S, n - 1)
         IN  shorter \cup {Append(s, x) : s \in shorter, x \in S}

\* term_cost: every terminal costs 1; the first terminal costs 2; the last two
\* terminals cost nothing.
UnitCost == [t \in Range(Terms) |-> 1]
HeavyCost == [t \in Range(Terms) |-> IF t = Terms[1] THEN 2 ELSE 1]
FreeCost == [t \in Range(Terms) |-> IF t \in {Terms[3], Terms[4]} THEN 0 ELSE 1]

\* The baseline recoverer does not read term_cost.
CostFns == IF kind = "CPCTPlus" THEN {UnitCost, HeavyCost, FreeCost} ELSE {UnitCost}

\* The longest input: the baseline is run on longer inputs than CPCT+.
LenBound == IF kind = "Corchuelo" THEN MaxLenBaseline ELSE MaxLen

NoRet == [la_idx |-> 0, repairs |-> <<>>]

Init ==
    /\ kind \in {"Corchuelo", "CPCTPlus"}
    /\ grm \in {"G1", "G2"}
    /\ lexemes \in SeqsUpTo(Range(Terms), LenBound)
    /\ term_cost \in CostFns
    /\ in_la_idx = 0
    /\ in_pstack = <<0>>
    /\ tstack = <<>>
    /\ expired = FALSE
    /\ pc = "parse"
    /\ todo = <<>>
    /\ finished = <<>>
    /\ finished_score = <<>>
    /\ finisher_scores = {}
    /\ open = <<>>
    /\ closed = <<>>
    /\ scs_nodes = <<>>
    /\ ret = NoRet

\* The parser runs from its start state; the input is accepted, or the parser
\* meets a syntax error and calls the recoverer with the stacks it has built.
Parse ==
    /\ pc = "parse"
    /\ LET r == lr(<<>>, 0, <<>>, <<0>>, << <<>> >>)
       IN  IF IsAccept(Top(r.pstack), next_tidx(r.la_idx))
           THEN /\ pc' = "accepted"
                /\ UNCHANGED <<in_la_idx, in_pstack, tstack, todo, open>>
           ELSE /\ in_la_idx' = r.la_idx
                /\ in_pstack' = r.pstack
                /\ tstack' = r.ts[1]
                /\ IF kind = "Corchuelo"
                   THEN /\ pc' = "todo"
                        /\ todo' = <<Item(r.la_idx, r.pstack, r.ts[1], <<>>)>>
                        /\ open' = open
                   ELSE /\ pc' = "search"
                        /\ open' = <<PathFNode(r.pstack, r.la_idx, <<Terminator>>, 0)>>
                        /\ todo' = todo
    /\ UNCHANGED <<kind, grm, lexemes, term_cost, expired, finished, finished_score,
                   finisher_scores, closed, scs_nodes, ret>>

Next ==
    \/ Parse
    \/ CorchueloStep
    \/ CorchueloReturn
    \/ DijkstraStep
    \/ RecoverReturn
    \/ Tick

Spec == Init /\ [][Next]_vars

\* The while loop of the baseline recover is sequential code: an iteration
\* that can be taken is taken, and recover returns when todo is empty.  An
\* iteration can be taken when todo.len() > 0, so weak fairness of
\* CorchueloStep is written with that condition for its enabling condition.
FairSpec ==
    /\ Spec
    /\ WF_vars(CorchueloReturn)
    /\ \/ []<>~(kind = "Corchuelo" /\ pc = "todo" /\ todo # <<>>)
       \/ []<><<CorchueloStep>>_vars

--------------------------------------------------------------------------
(* Properties.                                                             *)

\* The state recover was called in: the parser's stacks at its first error.
Called == lr(<<>>, 0, <<>>, <<0>>, << <<>> >>)

Returned == pc = "done"

\* The sequences recover hands back.
RetSeqs == Range(ret.repairs)

\* The sequences the collected success nodes stand for, every alternative of
\* every Merge included.
FlatSeqs == Range(Flatten(collect_repairs(scs_nodes)))

InsertAfterDelete(seq) ==
    \E i \in 1..(Len(seq) - 1) : seq[i].op = "Delete" /\ seq[i + 1].op = "Insert"

HasMerge(n) == \E i \in DOMAIN n.repairs : n.repairs[i].k = "Merge"

\* C1: in every repair sequence either recoverer returns (the baseline's
\* finishers; for CPCT+ every sequence its success nodes flatten to, every
\* alternative of a Merge included, and every sequence it hands back) no
\* Insert immediately follows a Delete.
C1_NoInsertAfterDelete ==
    /\ \A i \in DOMAIN finished : ~InsertAfterDelete(finished[i].repairs)
    /\ \A seq \in FlatSeqs : ~InsertAfterDelete(seq)
    /\ \A seq \in RetSeqs : ~InsertAfterDelete(seq)

\* CPCT+ returned a sequence with both a Delete and an Insert, flattened from
\* a success node that holds a Merge.
C1_Witness ==
    /\ Returned /\ kind = "CPCTPlus"
    /\ \E i \in DOMAIN scs_nodes : HasMerge(scs_nodes[i])
    /\ \E seq \in RetSeqs : /\ \E i \in DOMAIN seq : seq[i].op = "Delete"
                            /\ \E i \in DOMAIN seq : seq[i].op = "Insert"

\* The cost of a sequence replayed from la_idx: term_cost of every inserted
\* terminal and of the terminal of every deleted lexeme; Shifts cost nothing.
RECURSIVE SeqCost(_, _)
SeqCost(seq, la_idx) ==
    IF seq = <<>> THEN 0
    ELSE CASE Head(seq).op = "Insert" ->
                term_cost[Head(seq).term_idx] + SeqCost(Tail(seq), la_idx)
         []   Head(seq).op = "Delete" ->
                term_cost[lexemes[la_idx + 1]] + SeqCost(Tail(seq), la_idx + 1)
         []   OTHER -> SeqCost(Tail(seq), la_idx + 1)

\* C2: all the repair sequences one CPCT+ recover call returns have the same
\* cost, the sequences that come from Merge alternatives too.
C2_EqualCost ==
    kind = "CPCTPlus" =>
        /\ \A s1, s2 \in RetSeqs : SeqCost(s1, in_la_idx) = SeqCost(s2, in_la_idx)
        /\ \A s1, s2 \in FlatSeqs : SeqCost(s1, in_la_idx) = SeqCost(s2, in_la_idx)

\* CPCT+ returned several sequences, one with a Delete and one without, from
\* success nodes that hold a Merge, under a cost function that is not uniform.
C2_Witness ==
    /\ Returned /\ kind = "CPCTPlus" /\ term_cost # UnitCost
    /\ \E i \in DOMAIN scs_nodes : HasMerge(scs_nodes[i])
    /\ \E s1, s2 \in RetSeqs : /\ \E i \in DOMAIN s1 : s1[i].op = "Delete"
                               /\ \A i \in DOMAIN s2 : s2[i].op # "Delete"

\* s replayed from the state recover was called in, on the parse stack only.
ReplayOf(seq) == apply_repairs(in_la_idx, Called.pstack, <<>>, seq)

\* The parser, run from a over the real input for at most PARSE_AT_LEAST lexemes.
Onward(a) == lr(<<>>, a.la_idx, <<a.la_idx + PARSE_AT_LEAST>>, a.pstack, <<>>)

AtAccept(a) == IsAccept(Top(a.pstack), next_tidx(a.la_idx))

Moves(seq) == Count(seq, {"Delete", "Shift"})

C4_Simplified ==
    (Returned /\ kind = "CPCTPlus") =>
        /\ \A i \in DOMAIN ret.repairs :
              ret.repairs[i] = <<>> \/ Top(ret.repairs[i]) # PShift
        /\ \A i, j \in DOMAIN ret.repairs : i # j => ret.repairs[i] # ret.repairs[j]

\* CPCT+ returned several sequences, fewer than its success nodes stand for,
\* and one of those ends in Shift.
C4_Witness ==
    /\ Returned /\ kind = "CPCTPlus"
    /\ Len(ret.repairs) > 1
    /\ Cardinality(RetSeqs) < Len(Flatten(collect_repairs(scs_nodes)))
    /\ \E seq \in FlatSeqs : Top(seq) = PShift

InRecover == kind = "CPCTPlus" /\ pc \in {"search", "harvest", "returned"}

NothingRanked ==
    \/ scs_nodes = <<>>
    \/ rank_cnds(in_la_idx, in_pstack, collect_repairs(scs_nodes)) = <<>>

\* C5: when the CPCT+ search yields no success node, or ranking discards
\* every candidate, recover returns (in_la_idx, empty list) and the parse
\* stack and the tree stack are as they were passed in; a step of recover
\* changes them only when it returns a non-empty list, and then to what the
\* replay of the first returned sequence makes of them.
C5_FailureLeavesStacks ==
    [][InRecover =>
        /\ (pc' = "done" /\ NothingRanked) =>
              /\ ret' = [la_idx |-> in_la_idx, repairs |-> <<>>]
              /\ in_pstack' = in_pstack /\ tstack' = tstack
        /\ (in_pstack' # in_pstack \/ tstack' # tstack) =>
              /\ pc = "returned" /\ pc' = "done" /\ ret'.repairs # <<>>
              /\ in_pstack' = apply_repairs(in_la_idx, in_pstack, <<tstack>>,
                                            ret'.repairs[1]).pstack
              /\ tstack' = apply_repairs(in_la_idx, in_pstack, <<tstack>>,
                                         ret'.repairs[1]).ts[1]]_vars

\* CPCT+ returned the empty list from a search that collected no success node.
C5_Witness ==
    /\ Returned /\ kind = "CPCTPlus"
    /\ scs_nodes = <<>> /\ ret = [la_idx |-> in_la_idx, repairs |-> <<>>]
    /\ in_pstack = Called.pstack /\ tstack = Called.ts[1]

\* The node the search pops next.
NextNode == open[FirstOfCf(open, MinCf(open))]

Searching == [open |-> open, closed |-> closed, scs_nodes |-> scs_nodes, pc |-> pc]

\* The step that is about to be taken calls the expand closure.
ExpandCalled ==
    /\ kind = "CPCTPlus" /\ pc \in {"search", "harvest"}
    /\ ~SearchOver(Searching)
    /\ ~Success(NextNode)

\* C6: a call of the CPCT+ expand closure at or after the deadline pushes no
\* neighbour and ends the search; from then on no node is expanded or
\* collected, and recover returns what the success nodes collected before
\* stand for.
C6_DeadlineStopsSearch ==
    [][/\ (ExpandCalled /\ expired) =>
            /\ pc' = "returned"
            /\ scs_nodes' = scs_nodes
            /\ Range(open') \subseteq Range(open)
            /\ Range(closed') \subseteq Range(closed) \cup {NextNode}
       /\ (kind = "CPCTPlus" /\ pc = "returned") =>
            /\ open' = open /\ closed' = closed /\ scs_nodes' = scs_nodes
            /\ pc' = "done"
            /\ ret'.repairs = RecoverTail(scs_nodes).repairs]_vars

\* The search returned past the deadline although a node as cheap as the
\* success nodes it had collected was still open.
C6_Witness ==
    /\ kind = "CPCTPlus" /\ pc = "returned" /\ expired
    /\ scs_nodes # <<>> /\ open # <<>>
    /\ MinCf(open) = scs_nodes[1].cf

\* The search run from d to its end with a deadline that never expires.
RECURSIVE RunToEnd(_)
RunToEnd(d) ==
    IF d.pc \in {"returned", "panic"} THEN d ELSE RunToEnd(DijkstraIter(d, FALSE))

FullRun ==
    RunToEnd([open |-> <<start_node>>, closed |-> <<>>, scs_nodes |-> <<>>,
              pc |-> "search"])

\* C7: the sequences CPCT+ recover returns when the deadline expires after
\* any number of expansions are among those it returns, for the same input,
\* when the deadline never expires.
C7_TimeoutMonotone ==
    (kind = "CPCTPlus" /\ pc = "returned" /\ FullRun.pc = "returned") =>
        Range(RecoverTail(scs_nodes).repairs)
            \subseteq Range(RecoverTail(FullRun.scs_nodes).repairs)

\* The deadline expired in a search that returns some of the sequences of
\* the full search, and not all of them.
C7_Witness ==
    /\ kind = "CPCTPlus" /\ pc = "returned" /\ expired
    /\ FullRun.pc = "returned"
    /\ RecoverTail(scs_nodes).repairs # <<>>
    /\ Range(RecoverTail(scs_nodes).repairs)
          # Range(RecoverTail(FullRun.scs_nodes).repairs)

Min(a, b) == IF a < b THEN a ELSE b

\* What the search can tell two nodes by: the stack, the lookahead index,
\* whether the last repair is a Delete, and the Shifts at the top, counted
\* up to PARSE_AT_LEAST.
Abstract(n) ==
    PathFNode(n.pstack, n.la_idx,
              <<Terminator>>
              \o (IF last_repair(n) = <<Delete>> THEN <<RMRepair(Delete)>> ELSE <<>>)
              \o [i \in 1..Min(num_shifts(n.repairs), PARSE_AT_LEAST) |-> RMRepair(Shift)],
              n.cf)

Cheaper(nodes, c) == {n \in nodes : n.cf < c}

NeighboursOf(nodes) ==
    UNION {{Abstract(m) : m \in Range(Neighbours(TRUE, n))} : n \in nodes}

\* The nodes with a cf below c that the neighbour relation reaches.
RECURSIVE Reach(_, _, _)
Reach(seen, frontier, c) ==
    IF frontier = {} THEN seen
    ELSE Reach(seen \cup frontier, Cheaper(NeighboursOf(frontier), c) \ (seen \cup frontier), c)

\* C8: when the deadline does not expire, every node the search returns is
\* a success node, the returned nodes have one cf, and no success node with
\* a smaller cf can be reached from the start node; the search returns a
\* node whenever it returns.
C8_OptimalSuccessNodes ==
    (kind = "CPCTPlus" /\ pc = "returned" /\ ~expired) =>
        /\ scs_nodes # <<>>
        /\ \A i \in DOMAIN scs_nodes :
              Success(scs_nodes[i]) /\ scs_nodes[i].cf = scs_nodes[1].cf
        /\ \A n \in Reach({}, Cheaper({start_node}, scs_nodes[1].cf), scs_nodes[1].cf) :
              ~Success(n)

\* A search that was not cut short returned several success nodes of a cf of
\* 2 or more, having closed nodes of every cf below.
C8_Witness ==
    /\ kind = "CPCTPlus" /\ pc = "returned" /\ ~expired
    /\ Len(scs_nodes) > 1 /\ scs_nodes[1].cf >= 2
    /\ \A c \in 0..(scs_nodes[1].cf - 1) : \E i \in DOMAIN closed : closed[i].cf = c

\* C9: every sequence in the baseline's list of finishers, and so in the
\* list it returns, has the smallest score of any finisher the search has
\* found; the list is empty only if none was found.
C9_ReturnedAreCheapest ==
    kind = "Corchuelo" =>
        /\ \A i \in DOMAIN finished : \A sc \in finisher_scores :
              score(finished[i].repairs) <= sc
        /\ \A i \in DOMAIN finished : score(finished[i].repairs) \in finisher_scores
        /\ (finished = <<>>) = (finisher_scores = {})
        /\ Returned => ret.repairs = [i \in DOMAIN finished |-> finished[i].repairs]

\* The baseline returned its finishers after a search that found finishers
\* of more than one score.
C9_Witness ==
    /\ Returned /\ kind = "Corchuelo"
    /\ ret.repairs # <<>>
    /\ Cardinality(finisher_scores) > 1

IsPrefix(p, q) == Len(p) <= Len(q) /\ SubSeq(q, 1, Len(p)) = p

CorchueloLoop == kind = "Corchuelo" /\ pc = "todo" /\ todo # <<>>

NoRuleApplied ==
    /\ todo' = Tail(todo)
    /\ finished' = finished /\ finished_score' = finished_score

\* C10 as the specification states it: once a best finisher score is known,
\* a dequeued item whose score equals or exceeds it has none of ER1, ER2 and
\* ER3 applied to it.
C10_Original ==
    [][(CorchueloLoop /\ finished_score # <<>>
        /\ score(Head(todo).repairs) >= finished_score[1]) => NoRuleApplied]_vars

\* C10, amended: once a best finisher score is known, a dequeued item whose
\* score exceeds it has none of ER1, ER2 and ER3 applied to it; an item whose
\* score equals it, or is less, has all three applied.
C10_PrunedWhenDearer ==
    [][CorchueloLoop =>
        IF finished_score # <<>> /\ score(Head(todo).repairs) > finished_score[1]
        THEN NoRuleApplied
        ELSE /\ IsPrefix(Tail(todo) \o ER1(Head(todo)) \o ER2(Head(todo)), todo')
             /\ ER3(Head(todo)).what = "finisher" =>
                    finished' # <<>> /\ Top(finished') = ER3(Head(todo)).item
             /\ ER3(Head(todo)).what = "todo" =>
                    todo' # <<>> /\ Top(todo') = ER3(Head(todo)).item]_vars

\* With two finishers of the best score collected, the second found from an
\* item of that score, the item at the head of todo is dearer.
C10_Witness ==
    /\ CorchueloLoop /\ finished_score # <<>>
    /\ Len(finished) > 1
    /\ score(Head(todo).repairs) > finished_score[1]

\* The repair sequences the baseline holds: those of the work list and those
\* of the finishers.
BaselineSeqs ==
    {todo[i].repairs : i \in DOMAIN todo} \cup {finished[i].repairs : i \in DOMAIN finished}

\* C11 as the specification states it: a sequence the baseline returns has at
\* most INSERT_THRESHOLD Inserts and at most DELETE_THRESHOLD Deletes.
C11_Original ==
    (Returned /\ kind = "Corchuelo") =>
        \A seq \in RetSeqs : /\ Count(seq, {"Insert"}) <= INSERT_THRESHOLD
                             /\ Count(seq, {"Delete"}) <= DELETE_THRESHOLD

\* C11, amended: a sequence the baseline holds or returns has at most
\* INSERT_THRESHOLD + 1 Inserts and at most DELETE_THRESHOLD + 1 Deletes (a
\* rule is applied to a sequence that has not exceeded the threshold, so one
\* more repair of the kind is added to a sequence that has just reached it).
C11_BaselineCaps ==
    kind = "Corchuelo" =>
        \A seq \in BaselineSeqs \cup RetSeqs :
            /\ Count(seq, {"Insert"}) <= INSERT_THRESHOLD + 1
            /\ Count(seq, {"Delete"}) <= DELETE_THRESHOLD + 1

\* The baseline returned a sequence with INSERT_THRESHOLD + 1 Inserts and a
\* sequence with DELETE_THRESHOLD + 1 Deletes.
C11_Witness ==
    /\ Returned /\ kind = "Corchuelo"
    /\ \E seq \in RetSeqs : Count(seq, {"Insert"}) = INSERT_THRESHOLD + 1
    /\ \E seq \in RetSeqs : Count(seq, {"Delete"}) = DELETE_THRESHOLD + 1

\* No element of s occurs twice.
Distinct(s) == Cardinality(Range(s)) = Len(s)

\* C12: the repair sequences the baseline returns are pairwise distinct, and
\* so are, at every point of the search, the sequences of the finishers it
\* has collected and the sequences of the items on its work list.
C12_BaselineDistinct ==
    kind = "Corchuelo" =>
        /\ Distinct([i \in DOMAIN finished |-> finished[i].repairs])
        /\ Distinct([i \in DOMAIN todo |-> todo[i].repairs])
        /\ Distinct(ret.repairs)

\* The baseline returned several sequences of the same length that make the
\* same number of Inserts and of Deletes.
C12_Witness ==
    /\ Returned /\ kind = "Corchuelo"
    /\ \E i, j \in DOMAIN ret.repairs :
          /\ i # j /\ Len(ret.repairs[i]) = Len(ret.repairs[j])
          /\ Count(ret.repairs[i], {"Insert"}) = Count(ret.repairs[j], {"Insert"})
          /\ Count(ret.repairs[i], {"Delete"}) = Count(ret.repairs[j], {"Delete"})

\* The nodes the search holds, and those the expansion about to be made
\* hands it to compare with them.
SearchNodes ==
    Range(open) \cup Range(closed) \cup Range(scs_nodes)
    \cup (IF ExpandCalled THEN Range(Neighbours(pc = "search", NextNode)) ELSE {})

IsShiftEntry(e) == e = RMRepair(Shift) \/ (e.k = "Merge" /\ e.r = Shift)

\* The number of Shifts at the top of a history: the newest k entries are
\* Shifts and the entry below them, if there is one, is not.
TrailingShifts(c) ==
    CHOOSE k \in 0..Len(c) :
        /\ \A i \in (Len(c) - k + 1)..Len(c) : IsShiftEntry(c[i])
        /\ k < Len(c) => ~IsShiftEntry(c[Len(c) - k])

EndsInDelete(n) ==
    Top(n.repairs) = RMRepair(Delete)
    \/ (Top(n.repairs).k = "Merge" /\ Top(n.repairs).r = Delete)

Mergeable(a, b) ==
    /\ a.pstack = b.pstack /\ a.la_idx = b.la_idx
    /\ TrailingShifts(a.repairs) = TrailingShifts(b.repairs)
    /\ EndsInDelete(a) = EndsInDelete(b)

\* C13: two CPCT+ search nodes compare equal exactly when they have the same
\* pstack and la_idx, the same number of Shifts at the top of their histories
\* (a Merge of a Shift counts as a Shift), and both or neither have Delete as
\* their last repair.
C13_NodeEqIsMergeable ==
    kind = "CPCTPlus" =>
        \A a, b \in SearchNodes : NodeEq(a, b) = Mergeable(a, b)

\* The search compares two different nodes that are equal, one of them with a
\* Merge of a Shift at its top, and two nodes with the same pstack and la_idx
\* that are not equal because one of them ends in a Delete.
C13_Witness ==
    /\ kind = "CPCTPlus"
    /\ \E a, b \in SearchNodes :
          /\ a # b /\ NodeEq(a, b)
          /\ Top(a.repairs).k = "Merge" /\ Top(a.repairs).r = Shift
    /\ \E a, b \in SearchNodes :
          /\ a.pstack = b.pstack /\ a.la_idx = b.la_idx /\ ~NodeEq(a, b)
          /\ EndsInDelete(a) /\ ~EndsInDelete(b)

\* The entries of a history above its Terminator.
Above(c) == SelectSeq(c, LAMBDA e : e.k # "Terminator")

\* Histories of at most PARSE_AT_LEAST entries above the Terminator, among
\* them the ones that are Shifts throughout.
ShortHistories ==
    {<<Terminator>> \o h :
        h \in SeqsUpTo({RMRepair(Shift), RMRepair(Delete), RMRepair(InsertTerm(Terms[1])),
                        RMMerge(Shift, << <<Terminator, RMRepair(Delete)>> >>)},
                       PARSE_AT_LEAST)}

\* C14: a CPCT+ node is successful exactly when the PARSE_AT_LEAST newest
\* entries of its history are all Shifts, plain or in a Merge, or the action
\* of its top state on the terminal at la_idx is Accept; a history with
\* fewer than PARSE_AT_LEAST entries above the Terminator does not satisfy
\* the shift rule.
C14_SuccessRule ==
    kind = "CPCTPlus" =>
        /\ \A n \in SearchNodes :
              Success(n) = (\/ TrailingShifts(n.repairs) >= PARSE_AT_LEAST
                            \/ Action(Top(n.pstack), next_tidx(n.la_idx)).a = "Accept")
        /\ \A h \in ShortHistories \cup {n.repairs : n \in SearchNodes} :
              /\ ends_with_parse_at_least_shifts(h)
                    = (TrailingShifts(h) >= PARSE_AT_LEAST)
              /\ Len(Above(h)) < PARSE_AT_LEAST => ~ends_with_parse_at_least_shifts(h)

\* The search holds a node that is successful by its Shifts and not by
\* Accept, and a node that is not successful although its newest entry is a
\* Shift, its history having fewer than PARSE_AT_LEAST entries.
C14_Witness ==
    /\ kind = "CPCTPlus"
    /\ \E n \in SearchNodes :
          /\ ends_with_parse_at_least_shifts(n.repairs)
          /\ ~IsAccept(Top(n.pstack), next_tidx(n.la_idx))
    /\ \E n \in SearchNodes :
          /\ ~Success(n) /\ TrailingShifts(n.repairs) >= 1
          /\ Len(Above(n.repairs)) < PARSE_AT_LEAST

\* CPCT+ has returned from a search the deadline did not cut short.
ReturnedInTime == Returned /\ kind = "CPCTPlus" /\ ~expired

\* The parser, resumed after the replay recover made, reaches Accept at the
\* end of the input: the error recover was called for is the only one.
OneError ==
    /\ lr(<<>>, ret.la_idx, <<>>, in_pstack, <<>>).la_idx = Len(lexemes)
    /\ AtAccept(lr(<<>>, ret.la_idx, <<>>, in_pstack, <<>>))

\* C15: for G1 with unit costs and the input "(nn", CPCT+ is called for one
\* error, at the second n, and returns exactly the three sequences
\* [Insert ")", Insert "+"], [Insert ")", Delete] and
\* [Insert "+", Shift, Insert ")"].
C15_ScenarioS2 ==
    (ReturnedInTime /\ grm = "G1" /\ term_cost = UnitCost
     /\ lexemes = <<"(", "N", "N">>) =>
        /\ in_la_idx = 2 /\ next_lexeme(in_la_idx) = Lexeme("N", 2, 1)
        /\ OneError
        /\ Len(ret.repairs) = 3
        /\ RetSeqs = { <<PInsert(")"), PInsert("+")>>,
                       <<PInsert(")"), PDelete>>,
                       <<PInsert("+"), PShift, PInsert(")")>> }

\* CPCT+ has returned for G1, unit costs and the input "(nn".
C15_Witness ==
    /\ ReturnedInTime /\ grm = "G1" /\ term_cost = UnitCost
    /\ lexemes = <<"(", "N", "N">>
    /\ ret.repairs # <<>>

\* C16: for G2 with unit costs and the empty input, CPCT+ returns exactly
\* the three sequences [Insert "a", Insert "d"], [Insert "b", Insert "d"] and
\* [Insert "c", Insert "d"]; they come from one success node, into which the
\* three paths of equal cost that reach the same state were merged.
C16_ScenarioS6 ==
    (kind = "CPCTPlus" /\ ~expired /\ pc \in {"returned", "done"}
     /\ grm = "G2" /\ term_cost = UnitCost /\ lexemes = <<>>) =>
        /\ Len(scs_nodes) = 1
        /\ Top(scs_nodes[1].repairs).k = "Merge"
        /\ Len(Top(scs_nodes[1].repairs).v) = 2
        /\ Len(traverse(scs_nodes[1].repairs)) = 3
        /\ pc = "done" =>
              /\ Len(ret.repairs) = 3
              /\ RetSeqs = { <<PInsert("a"), PInsert("d")>>,
                             <<PInsert("b"), PInsert("d")>>,
                             <<PInsert("c"), PInsert("d")>> }

\* CPCT+ has returned for G2, unit costs and the empty input.
C16_Witness ==
    /\ ReturnedInTime /\ grm = "G2" /\ term_cost = UnitCost
    /\ lexemes = <<>>
    /\ ret.repairs # <<>> /\ HasMerge(scs_nodes[1])


\* The baseline has returned for G1 and the input "(nn".
BaselineS1 ==
    /\ Returned /\ kind = "Corchuelo" /\ grm = "G1"
    /\ lexemes = <<"(", "N", "N">>

\* C17 as the specification states it: for G1 and the input "(nn" the
\* baseline returns exactly the sequences [Insert ")", Insert "+", Delete],
\* [Insert ")", Delete] and [Insert "+", Delete, Insert ")"].
C17_Original ==
    BaselineS1 =>
        /\ Len(ret.repairs) = 3
        /\ RetSeqs = { <<PInsert(")"), PInsert("+"), PDelete>>,
                       <<PInsert(")"), PDelete>>,
                       <<PInsert("+"), PDelete, PInsert(")")>> }

\* C17, amended: for G1 and the input "(nn" the baseline is called for one
\* error, at the lexeme at offset 2, and returns exactly the three sequences
\* [Insert ")", Insert "+", Shift], [Insert ")", Delete] and
\* [Insert "+", Shift, Insert ")"]; pp_repairs prints them as the three texts
\* of the test, in which a Shift reads "Delete".
C17_ScenarioS1 ==
    BaselineS1 =>
        /\ in_la_idx = 2 /\ next_lexeme(in_la_idx) = Lexeme("N", 2, 1)
        /\ \A i \in DOMAIN finished :
              /\ lr(<<>>, finished[i].la_idx, <<>>, finished[i].pstack, <<>>).la_idx
                    = Len(lexemes)
              /\ AtAccept(lr(<<>>, finished[i].la_idx, <<>>, finished[i].pstack, <<>>))
        /\ Len(ret.repairs) = 3
        /\ RetSeqs = { <<PInsert(")"), PInsert("+"), PShift>>,
                       <<PInsert(")"), PDelete>>,
                       <<PInsert("+"), PShift, PInsert(")")>> }
        /\ {pp_repairs(seq) : seq \in RetSeqs}
              = { << <<"Insert", ")">>, <<"Insert", "+">>, <<"Delete">> >>,
                  << <<"Insert", ")">>, <<"Delete">> >>,
                  << <<"Insert", "+">>, <<"Delete">>, <<"Insert", ")">> >> }

\* The baseline has returned for G1 and the input "(nn", with a sequence
\* that holds a Shift.
C17_Witness ==
    /\ BaselineS1
    /\ \E seq \in RetSeqs : \E i \in DOMAIN seq : seq[i] = PShift

\* The nodes the search has put in its queue or expanded.
QueuedNodes == Range(open) \cup Range(closed)

\* m is a successor of n by an Insert, by a Delete.
IsInsertOf(m, n) ==
    \E t \in Range(Terms) : m.repairs = Append(n.repairs, RMRepair(InsertTerm(t)))

IsDeleteOf(m, n) == m.repairs = Append(n.repairs, RMRepair(Delete))

IsSuffix(p, q) == Len(p) <= Len(q) /\ SubSeq(q, Len(q) - Len(p) + 1, Len(q)) = p

\* What the neighbour policy promises of the neighbours nbrs of n.
PolicyKept(explore_all, n, nbrs) ==
    /\ last_repair(n) = <<Delete>> => \A i \in DOMAIN nbrs : ~IsInsertOf(nbrs[i], n)
    /\ ~explore_all =>
          /\ \A i \in DOMAIN nbrs : ~IsInsertOf(nbrs[i], n) /\ ~IsDeleteOf(nbrs[i], n)
          /\ Len(nbrs) <= 1
          /\ \A i \in DOMAIN nbrs : nbrs[i] \in Range(shift(n))
          /\ \A i \in DOMAIN nbrs : nbrs[i].cf = n.cf

\* C18 as the specification states it: expand emits no Insert successor of a
\* node whose last repair is Delete; when explore_all is false it emits at
\* most one neighbour, the shift-or-reduce successor, at the node's cf; and
\* the shift-or-reduce successor is attempted on every expansion, whatever
\* the clock reads.
C18_Original ==
    kind = "CPCTPlus" =>
        \A n \in QueuedNodes : \A explore_all \in BOOLEAN :
            /\ PolicyKept(explore_all, n, Expand(explore_all, n, expired).nbrs)
            /\ IsSuffix(shift(n), Expand(explore_all, n, expired).nbrs)

\* C18, amended: expand emits no Insert successor of a node whose last
\* repair is Delete; when explore_all is false it emits at most one
\* neighbour, the shift-or-reduce successor, at the node's cf; the
\* shift-or-reduce successor is attempted, and emitted last, on every
\* expansion made before the deadline; an expansion at or after the deadline
\* emits nothing and attempts nothing.
C18_NeighbourPolicy ==
    kind = "CPCTPlus" =>
        \A n \in QueuedNodes : \A explore_all \in BOOLEAN :
            /\ PolicyKept(explore_all, n, Expand(explore_all, n, expired).nbrs)
            /\ ~expired => /\ Expand(explore_all, n, expired).cont
                           /\ IsSuffix(shift(n), Expand(explore_all, n, expired).nbrs)
            /\ expired => /\ ~Expand(explore_all, n, expired).cont
                          /\ Expand(explore_all, n, expired).nbrs = <<>>

\* Before the deadline the search is about to expand, with explore_all
\* false, a node that has Insert, Delete and shift successors, and it holds a
\* node whose last repair is Delete that could insert and can shift.
C18_Witness ==
    /\ ExpandCalled /\ pc = "harvest" /\ ~expired
    /\ insert(NextNode) # <<>> /\ delete(NextNode) # <<>> /\ shift(NextNode) # <<>>
    /\ \E n \in QueuedNodes :
          /\ last_repair(n) = <<Delete>>
          /\ insert(n) # <<>> /\ shift(n) # <<>>

\* The one-token LR step from n.
OneToken(n) == lr_cactus(<<>>, n.la_idx, n.la_idx + 1, n.pstack)

\* C19: CPCT+ shift emits at most one successor of a node, and emits one
\* exactly when the stack the one-token LR step returns differs from the
\* node's; the successor has that stack, the node's cf, and the node's la_idx
\* or the next; its history is the node's with one Shift appended when the
\* lookahead advanced, and the node's own when it did not.
C19_ShiftByOne ==
    kind = "CPCTPlus" =>
        \A n \in QueuedNodes :
            /\ Len(shift(n)) <= 1
            /\ (shift(n) # <<>>) = (OneToken(n).pstack # n.pstack)
            /\ \A i \in DOMAIN shift(n) :
                  /\ shift(n)[i].pstack = OneToken(n).pstack
                  /\ shift(n)[i].la_idx = OneToken(n).la_idx
                  /\ shift(n)[i].la_idx \in {n.la_idx, n.la_idx + 1}
                  /\ shift(n)[i].la_idx = n.la_idx + 1 =>
                        shift(n)[i].repairs = Append(n.repairs, RMRepair(Shift))
                  /\ shift(n)[i].la_idx = n.la_idx => shift(n)[i].repairs = n.repairs
                  /\ shift(n)[i].cf = n.cf

\* The search holds a node whose shift successor advances the lookahead, a
\* node whose successor is a reduction that leaves the lookahead and the
\* history as they are, and a node that has no shift successor.
C19_Witness ==
    /\ kind = "CPCTPlus"
    /\ \E n \in QueuedNodes :
          shift(n) # <<>> /\ shift(n)[1].la_idx = n.la_idx + 1 /\ n.cf > 0
    /\ \E n \in QueuedNodes :
          shift(n) # <<>> /\ shift(n)[1].la_idx = n.la_idx
          /\ shift(n)[1].repairs = n.repairs
    /\ \E n \in QueuedNodes : shift(n) = <<>>

\* The repair sequences the history of n stands for, every alternative of
\* every Merge included.
HistoriesOf(n) == Range(ToParseRepairs(traverse(n.repairs)))

\* C20: the cf of every node of the CPCT+ search is the cost of its history,
\* and of every history merged into it: term_cost of the terminal of every
\* Insert plus term_cost of the terminal of the lexeme at the lookahead when
\* each Delete was made, nothing for a Shift or a reduction; the start node
\* has cf 0.
C20_CostOfHistory ==
    kind = "CPCTPlus" =>
        /\ \A n \in SearchNodes :
              /\ \A seq \in HistoriesOf(n) : SeqCost(seq, in_la_idx) = n.cf
              /\ n.repairs = <<Terminator>> => n.cf = 0
        /\ pc \in {"search", "harvest", "returned", "done"} =>
              start_node.cf = 0 /\ (closed # <<>> => closed[1].cf = 0)

\* Under a cost function that is not uniform the search holds a node of a
\* positive cf whose history holds a Merge, an Insert, a Delete and a Shift.
C20_Witness ==
    /\ kind = "CPCTPlus" /\ term_cost # UnitCost
    /\ \E n \in SearchNodes :
          /\ n.cf > 0 /\ HasMerge(n)
          /\ \E seq \in HistoriesOf(n) :
                /\ \E i \in DOMAIN seq : seq[i].op = "Insert"
                /\ \E i \in DOMAIN seq : seq[i].op = "Delete"
                /\ \E i \in DOMAIN seq : seq[i].op = "Shift"

\* The pairs the search can hand to merge: equal nodes of equal cost for
\* which the closure does not reach unreachable!().
CanMerge(old, new) ==
    NodeEq(old, new) /\ old.cf = new.cf /\ MergeNodes(old, new).ok

Merged(old, new) == MergeNodes(old, new).node

\* The repairs of a history without a Merge, oldest first.
PlainSeq(c) == [i \in DOMAIN Above(c) |-> Above(c)[i].r]

\* C21: after merge(old, new) with different histories, the sequences old's
\* history flattens to are those it flattened to before and those new's
\* history flattens to, no more and no fewer; a history that holds no Merge
\* flattens to its repairs from the root to the top; when the histories are
\* equal the merge leaves old as it is.
C21_MergeKeepsHistories ==
    kind = "CPCTPlus" =>
        /\ \A old, new \in SearchNodes :
              CanMerge(old, new) =>
                 IF old.repairs = new.repairs THEN Merged(old, new) = old
                 ELSE /\ Range(traverse(Merged(old, new).repairs))
                            = Range(traverse(old.repairs)) \cup Range(traverse(new.repairs))
                      /\ Len(traverse(Merged(old, new).repairs))
                            = Len(traverse(old.repairs)) + Len(traverse(new.repairs))
        /\ \A n \in SearchNodes :
              (~HasMerge(n) /\ Above(n.repairs) # <<>>) =>
                  traverse(n.repairs) = <<PlainSeq(n.repairs)>>

\* The search holds two equal nodes of equal cost and different histories,
\* the one with a Merge at its top already, the other flattening to a
\* sequence the first does not have.
C21_Witness ==
    /\ kind = "CPCTPlus"
    /\ \E old, new \in SearchNodes :
          /\ CanMerge(old, new) /\ old.repairs # new.repairs
          /\ Top(old.repairs).k = "Merge"
          /\ ~(Range(traverse(new.repairs)) \subseteq Range(traverse(old.repairs)))

\* C22: merge(old, new) changes nothing of old but its history: pstack,
\* la_idx and cf stay, and so do old's last repair, the number of Shifts at
\* the top of its history, the nodes it is equal to and whether it is a
\* success node.
C22_MergeFrame ==
    kind = "CPCTPlus" =>
        \A old, new \in SearchNodes :
            CanMerge(old, new) =>
                /\ Merged(old, new) = [old EXCEPT !.repairs = Merged(old, new).repairs]
                /\ last_repair(Merged(old, new)) = last_repair(old)
                /\ TrailingShifts(Merged(old, new).repairs) = TrailingShifts(old.repairs)
                /\ Len(Merged(old, new).repairs) = Len(old.repairs)
                /\ \A x \in SearchNodes : NodeEq(Merged(old, new), x) = NodeEq(old, x)
                /\ Success(Merged(old, new)) = Success(old)

\* The search holds two equal nodes of equal cost and different histories
\* whose newest repairs are Shifts, the first short of success by one Shift.
C22_Witness ==
    /\ kind = "CPCTPlus"
    /\ \E old, new \in SearchNodes :
          /\ CanMerge(old, new) /\ old.repairs # new.repairs
          /\ Merged(old, new) # old
          /\ TrailingShifts(old.repairs) = PARSE_AT_LEAST - 1
          /\ ~Success(old)

\* C23: every node of the CPCT+ search has in_la_idx <= la_idx <= |lexemes|,
\* and no successor of a node has a smaller la_idx than the node; neither
\* recoverer makes a Delete successor of a node whose la_idx is |lexemes|.
C23_LookaheadInRange ==
    /\ kind = "CPCTPlus" =>
          /\ \A n \in SearchNodes : in_la_idx <= n.la_idx /\ n.la_idx <= Len(lexemes)
          /\ \A n \in QueuedNodes : \A explore_all \in BOOLEAN :
                /\ \A m \in Range(Neighbours(explore_all, n)) :
                      /\ n.la_idx <= m.la_idx
                      /\ (n.la_idx = Len(lexemes)) => ~IsDeleteOf(m, n)
                /\ n.la_idx = Len(lexemes) => delete(n) = <<>>
    /\ kind = "Corchuelo" =>
          /\ \A i \in DOMAIN todo :
                /\ in_la_idx <= todo[i].la_idx /\ todo[i].la_idx <= Len(lexemes)
                /\ todo[i].la_idx = Len(lexemes) => ER2(todo[i]) = <<>>
          /\ \A i \in DOMAIN finished :
                in_la_idx <= finished[i].la_idx /\ finished[i].la_idx <= Len(lexemes)

\* The CPCT+ search holds a node that a Delete has brought to the end of the
\* input, beyond in_la_idx, and that has Insert successors and no Delete
\* successor.
C23_Witness ==
    /\ kind = "CPCTPlus"
    /\ \E n \in QueuedNodes :
          /\ n.la_idx = Len(lexemes) /\ in_la_idx < n.la_idx
          /\ \E i \in DOMAIN n.repairs : n.repairs[i] = RMRepair(Delete)
          /\ insert(n) # <<>> /\ delete(n) = <<>>

\* The terminals, the end-of-input terminal among them.
AllTerms == Range(Terms) \cup {EOF_TIDX}

\* The one-token step from pstack at la_idx with terminal t put in place of
\* the next lexeme.
Injected(t, la_idx, pstack) ==
    lr_cactus(<<Lexeme(t, next_lexeme(la_idx).start, 0)>>, la_idx, la_idx + 1, pstack)

\* Terminal t may be inserted at parse stack pstack and position la_idx: it is
\* not the end-of-input terminal, the top state has an action for it, and the
\* one-token step reads it.
Insertable(t, la_idx, pstack) ==
    /\ t # EOF_TIDX
    /\ Action(Top(pstack), t).a # "None"
    /\ Injected(t, la_idx, pstack).la_idx = la_idx + 1

\* C24: in both recoverers a successor by Insert(t) is made only for a
\* terminal t that is not the end-of-input terminal, has an action in the top
\* state of the node, and is read by a one-token step with t put in place of
\* the next lexeme; the successor has the parse stack of that step and the
\* la_idx of the node; no returned sequence has an Insert of the end-of-input
\* terminal.
C24_InsertRule ==
    /\ kind = "CPCTPlus" =>
          \A n \in QueuedNodes : \A explore_all \in BOOLEAN :
             \A m \in Range(Neighbours(explore_all, n)) : \A t \in AllTerms :
                m.repairs = Append(n.repairs, RMRepair(InsertTerm(t))) =>
                   /\ Insertable(t, n.la_idx, n.pstack)
                   /\ m.pstack = Injected(t, n.la_idx, n.pstack).pstack
                   /\ m.la_idx = n.la_idx
    /\ kind = "Corchuelo" =>
          \A i \in DOMAIN todo :
             LET cur == todo[i]
                 nxt == ER1(cur)
             IN  \A j \in DOMAIN nxt :
                    LET t == Top(nxt[j].repairs).term_idx
                    IN  /\ nxt[j].repairs = Append(cur.repairs, PInsert(t))
                        /\ Insertable(t, cur.la_idx, cur.pstack)
                        /\ nxt[j].pstack = Injected(t, cur.la_idx, cur.pstack).pstack
                        /\ nxt[j].la_idx = cur.la_idx
    /\ Returned =>
          \A seq \in RetSeqs : \A i \in DOMAIN seq : seq[i] # PInsert(EOF_TIDX)

\* The CPCT+ search holds a node with Insert successors whose top state has
\* an action for the end-of-input terminal and an action for a terminal that
\* the one-token step does not read, neither of which gives a successor.
C24_Witness ==
    /\ kind = "CPCTPlus"
    /\ \E n \in QueuedNodes :
          /\ insert(n) # <<>>
          /\ Action(Top(n.pstack), EOF_TIDX).a # "None"
          /\ \E t \in Range(Terms) :
                /\ Action(Top(n.pstack), t).a # "None"
                /\ ~Insertable(t, n.la_idx, n.pstack)
                /\ \A m \in Range(insert(n)) :
                      m.repairs # Append(n.repairs, RMRepair(InsertTerm(t)))

\* The forward move of the baseline from item cur: where the parser stops, and
\* the action of the state it stops in on the next lexeme of the input.
ForwardOf(cur) ==
    lr(<<>>, cur.la_idx, <<cur.la_idx + PARSE_AT_LEAST>>, cur.pstack, <<cur.tstack>>)

NextAct(r) == Action(Top(r.pstack), next_tidx(r.la_idx)).a

ActionKinds == {"Shift", "Reduce", "Accept", "None"}

\* The fate of a forward move from la_idx that stopped at new_la_idx with
\* action act next: "none" when discarded, "finisher" when collected, "todo"
\* when put back on the work list.
Fate(la_idx, new_la_idx, act) ==
    IF new_la_idx >= in_la_idx + PORTION_THRESHOLD THEN "none"
    ELSE IF new_la_idx = la_idx + PARSE_AT_LEAST \/ act = "Accept" THEN "finisher"
    ELSE IF act = "None" /\ new_la_idx > la_idx THEN "todo"
    ELSE "none"

\* The baseline is at an iteration of its loop that applies the rules.
AtRules ==
    kind = "Corchuelo" /\ pc = "todo" /\ todo # <<>>
    /\ ~Pruned(finished_score, Head(todo).repairs)

\* C25: the forward move (ER3) of the baseline discards a result with
\* new_la_idx >= in_la_idx + PORTION_THRESHOLD; otherwise the result is added
\* to the finishers exactly if it advanced PARSE_AT_LEAST lexemes or the
\* action next is Accept; a result that is no finisher is put at the back of
\* the work list exactly if there is no action next and la_idx has advanced,
\* and is dropped otherwise.
C25_ForwardMove ==
    AtRules =>
        LET cur == Head(todo)
            r == ForwardOf(cur)
            item == Item(r.la_idx, r.pstack, r.ts[1],
                         cur.repairs \o Shifts(r.la_idx - cur.la_idx))
            fate == Fate(cur.la_idx, r.la_idx, NextAct(r))
            pushed == Tail(todo) \o ER1(cur) \o ER2(cur)
            out == CorchueloIter(todo, finished, finished_score)
        IN  /\ fate = "finisher" <=>
                  /\ out.finished # finished
                  /\ Top(out.finished) = item
            /\ fate = "finisher" =>
                  /\ out.todo = pushed
                  /\ out.finished \in {<<item>>, Append(finished, item)}
            /\ fate = "todo" <=> out.todo = Append(pushed, item)
            /\ fate = "none" <=> (out.todo = pushed /\ out.finished = finished)
            /\ \A la \in in_la_idx..(in_la_idx + PORTION_THRESHOLD) :
                  \A k \in 0..PARSE_AT_LEAST : \A act \in ActionKinds :
                     ER3What([cur EXCEPT !.la_idx = la], la + k, act) = Fate(la, la + k, act)

\* The baseline is about to collect a finisher that advanced by fewer than
\* PARSE_AT_LEAST lexemes to an Accept, having put back on the work list an
\* item that advanced to a lexeme with no action.
C25_Witness ==
    /\ AtRules
    /\ LET r == ForwardOf(Head(todo))
       IN  /\ r.la_idx < Head(todo).la_idx + PARSE_AT_LEAST
           /\ NextAct(r) = "Accept"
    /\ \E i \in DOMAIN todo :
          /\ todo[i].repairs # <<>> /\ Top(todo[i].repairs) = PShift
          /\ NextAct(todo[i]) = "None"

\* C26: whatever the costs of the terminals, zero among them, when the search
\* calls merge(old, new) on equal nodes of equal cost with different
\* histories, the newest entry of old's history is a Repair or a Merge, never
\* the Terminator: the merge closure does not reach unreachable!().
C26_Original ==
    /\ pc # "panic"
    /\ (kind = "CPCTPlus" /\ ExpandCalled) =>
          \A new \in Range(Neighbours(pc = "search", NextNode)) :
             \A old \in QueuedNodes :
                (NodeEq(old, new) /\ old.cf = new.cf /\ old.repairs # new.repairs)
                   => Top(old.repairs).k \in {"Repair", "Merge"}

\* What bounds the iterations an item of the baseline can still cause: the
\* Inserts and Deletes the caps leave it, and the lexemes ahead of it.
Variant(item) ==
    (INSERT_THRESHOLD + 1 - Count(item.repairs, {"Insert"}))
    + (DELETE_THRESHOLD + 1 - Count(item.repairs, {"Delete"}))
    + (Len(lexemes) - item.la_idx)

\* The items an iteration that applies the rules to cur puts on the work list.
Requeued(cur) ==
    ER1(cur) \o ER2(cur)
    \o (IF ER3(cur).what = "todo" THEN <<ER3(cur).item>> ELSE <<>>)

\* Every item on the work list has a variant of at least 0, and every item
\* made from it has a smaller one.
VariantDecreases ==
    kind = "Corchuelo" =>
        \A i \in DOMAIN todo :
            /\ Variant(todo[i]) >= 0
            /\ \A m \in Range(Requeued(todo[i])) : Variant(m) < Variant(todo[i])

\* An iteration takes the head off the work list and puts items of a smaller
\* variant at its back.
HeadReplaced ==
    /\ Len(todo') >= Len(todo) - 1
    /\ SubSeq(todo', 1, Len(todo) - 1) = Tail(todo)
    /\ \A i \in Len(todo)..Len(todo') : Variant(todo'[i]) < Variant(Head(todo))

\* C27: the loop of the baseline recover ends on every input: once recover is
\* called, todo becomes empty and recover returns; no deadline is read.  The
\* loop takes its steps one after the other, which the fairness conditions of
\* FairSpec state.
C27_BaselineTerminates ==
    /\ []VariantDecreases
    /\ [][CorchueloLoop => HeadReplaced]_vars
    /\ (kind = "Corchuelo" /\ pc = "todo") ~> (Returned /\ todo = <<>>)
    /\ [][kind = "Corchuelo" => expired' = expired]_vars

\* The baseline has returned from an input of the greatest length after it
\* found finishers of two different scores, so after the pruning test had
\* come into play.
C27_Witness ==
    /\ kind = "Corchuelo" /\ Returned /\ todo = <<>>
    /\ Len(lexemes) = MaxLenBaseline
    /\ Cardinality(finisher_scores) >= 2

\* C28: for every node of either recoverer and every repair sequence its
\* history stands for, in CPCT+ every alternative of every Merge included,
\* la_idx - in_la_idx is the number of Deletes plus the number of Shifts of
\* the sequence.
C28_LookaheadAccounting ==
    /\ kind = "CPCTPlus" =>
          \A n \in SearchNodes : \A seq \in HistoriesOf(n) :
             n.la_idx - in_la_idx = Moves(seq)
    /\ kind = "Corchuelo" =>
          /\ \A i \in DOMAIN todo : todo[i].la_idx - in_la_idx = Moves(todo[i].repairs)
          /\ \A i \in DOMAIN finished :
                finished[i].la_idx - in_la_idx = Moves(finished[i].repairs)
          /\ \A i \in DOMAIN todo : \A m \in Range(Requeued(todo[i])) :
                m.la_idx - in_la_idx = Moves(m.repairs)

\* The CPCT+ search holds a node beyond in_la_idx whose history holds a Merge
\* and stands for a sequence with a Delete and one with a Shift.
C28_Witness ==
    /\ kind = "CPCTPlus"
    /\ \E n \in SearchNodes :
          /\ n.la_idx > in_la_idx
          /\ \E i \in DOMAIN n.repairs : n.repairs[i].k = "Merge"
          /\ Cardinality(HistoriesOf(n)) >= 2
          /\ \E seq \in HistoriesOf(n) : Count(seq, {"Delete"}) > 0
          /\ \E seq \in HistoriesOf(n) : Count(seq, {"Shift"}) > 0

====
